---- MODULE Spec2Model ----
(***************************************************************************)
(* Model of the schema fetcher of src/src/App.tsx: the React state of the  *)
(* App component, the event handlers that reach fetchSchema, and the      *)
(* continuations of fetchSchema after each of its awaits.                  *)
(*                                                                         *)
(* Strings are TLA+ strings; a character is a string of length 1.          *)
(* A nullable value is a sequence of length 0 (null) or 1.                 *)
(* A JSON value is a tagged tuple: <<"null">>, <<"bool", b>>, <<"num", n>>,*)
(* <<"str", s>>, <<"arr", <<v, ...>>>>, <<"obj", <<<<key, v>>, ...>>>>.    *)
(***************************************************************************)
EXTENDS Integers, Sequences, FiniteSets, TLC

(***************************************************************************)
(* Bounds of the model.                                                    *)
(***************************************************************************)
\* longest name / secret typed into the credential inputs
MaxCredLen == 1

(***************************************************************************)
(* Strings.                                                                *)
(***************************************************************************)
CharAt(s, i) == SubSeq(s, i, i)

StartsWith(s, p) == Len(p) <= Len(s) /\ SubSeq(s, 1, Len(p)) = p

\* first position at which p occurs in s, 0 when it does not occur
IndexOf(s, p) ==
  LET hits == {i \in 1..(Len(s) - Len(p) + 1) : SubSeq(s, i, i + Len(p) - 1) = p}
  IN  IF hits = {} THEN 0 ELSE CHOOSE i \in hits : \A j \in hits : i <= j

\* String.prototype.replace with a string pattern: the first occurrence only
Replace(s, p, r) ==
  LET i == IndexOf(s, p)
  IN  IF i = 0 THEN s
      ELSE SubSeq(s, 1, i - 1) \o r \o SubSeq(s, i + Len(p), Len(s))

\* the white space String.prototype.trim strips, as far as the inputs can hold it
WhiteSpace == {" ", "\t", "\n", "\r"}

RECURSIVE TrimStart(_)
TrimStart(s) ==
  IF s # "" /\ CharAt(s, 1) \in WhiteSpace THEN TrimStart(SubSeq(s, 2, Len(s))) ELSE s

RECURSIVE TrimEnd(_)
TrimEnd(s) ==
  IF s # "" /\ CharAt(s, Len(s)) \in WhiteSpace THEN TrimEnd(SubSeq(s, 1, Len(s) - 1)) ELSE s

Trim(s) == TrimEnd(TrimStart(s))

(***************************************************************************)
(* btoa: base64 of a string of Latin1 characters.                          *)
(***************************************************************************)
\* the printable ASCII characters in code order: codes 32 (space) to 95, and
\* codes 97 to 126 (code 96, the grave accent, is not used by any input)
AsciiLow == " !\"#$%&'()*+,-./0123456789:;<=>?@ABCDEFGHIJKLMNOPQRSTUVWXYZ[\\]^_"

AsciiHigh == "abcdefghijklmnopqrstuvwxyz{|}~"

Base64Alphabet == "ABCDEFGHIJKLMNOPQRSTUVWXYZabcdefghijklmnopqrstuvwxyz0123456789+/"

\* code unit of a character; the one character of the inputs outside the
\* tables is the euro sign, U+20AC
CharCode(c) ==
  LET lo == {i \in 1..Len(AsciiLow) : CharAt(AsciiLow, i) = c}
      hi == {i \in 1..Len(AsciiHigh) : CharAt(AsciiHigh, i) = c}
  IN  IF lo # {} THEN 31 + (CHOOSE i \in lo : TRUE)
      ELSE IF hi # {} THEN 96 + (CHOOSE i \in hi : TRUE)
      ELSE 8364

Bytes(s) == [i \in 1..Len(s) |-> CharCode(CharAt(s, i))]

Sextet(n) == CharAt(Base64Alphabet, n + 1)

RECURSIVE Base64(_)
Base64(b) ==
  IF Len(b) = 0 THEN ""
  ELSE IF Len(b) = 1 THEN
    Sextet(b[1] \div 4) \o Sextet((b[1] % 4) * 16) \o "=="
  ELSE IF Len(b) = 2 THEN
    Sextet(b[1] \div 4) \o Sextet((b[1] % 4) * 16 + b[2] \div 16)
      \o Sextet((b[2] % 16) * 4) \o "="
  ELSE
    Sextet(b[1] \div 4) \o Sextet((b[1] % 4) * 16 + b[2] \div 16)
      \o Sextet((b[2] % 16) * 4 + b[3] \div 64) \o Sextet(b[3] % 64)
      \o Base64(SubSeq(b, 4, Len(b)))

\* btoa throws InvalidCharacterError on a character above U+00FF
btoaThrows(s) == \E i \in 1..Len(s) : CharCode(CharAt(s, i)) > 255

btoa(s) == Base64(Bytes(s))

BtoaErrorMessage ==
  "Failed to execute 'btoa' on 'Window': The string to be encoded contains characters outside of the Latin1 range."

(***************************************************************************)
(* The request builder of fetchSchema.                                     *)
(***************************************************************************)
ApiOrigin == "https://api.avo.app"

\* a variant that joins name and secret without the colon
encodeBasicAuth_NoColon(name, secret) == btoa(name \o secret)

encodeBasicAuth(name, secret) == btoa(name \o ":" \o secret)

\* a variant that never rewrites
getProxiedUrl_NoRewrite(url) == url

getProxiedUrl(url) ==
  IF StartsWith(url, ApiOrigin) THEN Replace(url, ApiOrigin, "/api") ELSE url

\* a variant that takes one non-blank field for credentials
hasCredentials_Either(name, secret) == Trim(name) # "" \/ Trim(secret) # ""

hasCredentials(name, secret) == Trim(name) # "" /\ Trim(secret) # ""

\* the headers object of the request; only called when buildThrows is false
buildHeaders(name, secret) ==
  IF hasCredentials(name, secret)
  THEN ("Content-Type" :> "application/json")
         @@ ("authorization" :> ("Basic " \o encodeBasicAuth(Trim(name), Trim(secret))))
  ELSE ("Content-Type" :> "application/json")

\* building the headers throws when btoa does
buildThrows(name, secret) ==
  hasCredentials(name, secret) /\ btoaThrows(Trim(name) \o ":" \o Trim(secret))

(***************************************************************************)
(* response.json(): JSON.parse of the body text.  The grammar covered is   *)
(* the one the bodies of the model use: the literals, integers without     *)
(* fraction or exponent, strings without escapes, arrays and objects.      *)
(***************************************************************************)
JsonWhiteSpace == {" ", "\t", "\n", "\r"}

Digits == "0123456789"

IsDigit(c) == \E d \in 1..Len(Digits) : CharAt(Digits, d) = c

RECURSIVE SkipWs(_, _)
SkipWs(s, i) ==
  IF i <= Len(s) /\ CharAt(s, i) \in JsonWhiteSpace THEN SkipWs(s, i + 1) ELSE i

\* the literal lit stands at position i of s
LitAt(s, i, lit) == i + Len(lit) - 1 <= Len(s) /\ SubSeq(s, i, i + Len(lit) - 1) = lit

JOk(v, next) == [ok |-> TRUE, val |-> v, next |-> next]

\* a syntax error at position at (Len(s) + 1: the input ended)
JFail(at) == [ok |-> FALSE, val |-> <<"null">>, next |-> at]

\* end of the run of digits that starts at i
RECURSIVE DigitsEnd(_, _)
DigitsEnd(s, i) ==
  IF i <= Len(s) /\ IsDigit(CharAt(s, i)) THEN DigitsEnd(s, i + 1) ELSE i

RECURSIVE ToNumber(_)
ToNumber(d) ==
  IF d = "" THEN 0
  ELSE 10 * ToNumber(SubSeq(d, 1, Len(d) - 1)) + (CharCode(CharAt(d, Len(d))) - 48)

\* an unsigned integer at i: "0", or digits that do not start with "0"
ParseNumber(s, i) ==
  LET e == IF CharAt(s, i) = "0" THEN i + 1 ELSE DigitsEnd(s, i)
  IN  JOk(<<"num", ToNumber(SubSeq(s, i, e - 1))>>, e)

\* position of the closing quote of the string whose opening quote is at i - 1
RECURSIVE StringEnd(_, _)
StringEnd(s, i) ==
  IF i > Len(s) THEN i
  ELSE IF CharAt(s, i) = "\"" THEN i
  ELSE StringEnd(s, i + 1)

ParseString(s, i) ==
  LET e == StringEnd(s, i + 1)
  IN  IF e > Len(s) THEN JFail(e) ELSE JOk(<<"str", SubSeq(s, i + 1, e - 1)>>, e + 1)

RECURSIVE ParseValue(_, _), ParseElements(_, _, _), ParseMembers(_, _, _)
ParseValue(s, i0) ==
  LET i == SkipWs(s, i0)
  IN  IF i > Len(s) THEN JFail(i)
      ELSE IF LitAt(s, i, "null") THEN JOk(<<"null">>, i + 4)
      ELSE IF LitAt(s, i, "true") THEN JOk(<<"bool", TRUE>>, i + 4)
      ELSE IF LitAt(s, i, "false") THEN JOk(<<"bool", FALSE>>, i + 5)
      ELSE IF IsDigit(CharAt(s, i)) THEN ParseNumber(s, i)
      ELSE IF CharAt(s, i) = "\"" THEN ParseString(s, i)
      ELSE IF CharAt(s, i) = "[" THEN
        LET j == SkipWs(s, i + 1)
        IN  IF j <= Len(s) /\ CharAt(s, j) = "]" THEN JOk(<<"arr", <<>>>>, j + 1)
            ELSE ParseElements(s, j, <<>>)
      ELSE IF CharAt(s, i) = "{" THEN
        LET j == SkipWs(s, i + 1)
        IN  IF j <= Len(s) /\ CharAt(s, j) = "}" THEN JOk(<<"obj", <<>>>>, j + 1)
            ELSE ParseMembers(s, j, <<>>)
      ELSE JFail(i)

\* the elements of an array from position i on, acc being those already read
ParseElements(s, i, acc) ==
  LET v == ParseValue(s, i)
      j == SkipWs(s, v.next)
  IN  IF ~v.ok THEN v
      ELSE IF j > Len(s) THEN JFail(j)
      ELSE IF CharAt(s, j) = "," THEN ParseElements(s, j + 1, Append(acc, v.val))
      ELSE IF CharAt(s, j) = "]" THEN JOk(<<"arr", Append(acc, v.val)>>, j + 1)
      ELSE JFail(j)

\* the members of an object from position i on, acc being those already read
ParseMembers(s, i, acc) ==
  LET k0 == SkipWs(s, i)
      k  == IF k0 <= Len(s) /\ CharAt(s, k0) = "\"" THEN ParseString(s, k0) ELSE JFail(k0)
      c  == SkipWs(s, k.next)
      v  == ParseValue(s, c + 1)
      j  == SkipWs(s, v.next)
  IN  IF ~k.ok THEN k
      ELSE IF c > Len(s) \/ CharAt(s, c) # ":" THEN JFail(c)
      ELSE IF ~v.ok THEN v
      ELSE IF j > Len(s) THEN JFail(j)
      ELSE IF CharAt(s, j) = ","
        THEN ParseMembers(s, j + 1, Append(acc, <<k.val[2], v.val>>))
      ELSE IF CharAt(s, j) = "}"
        THEN JOk(<<"obj", Append(acc, <<k.val[2], v.val>>)>>, j + 1)
      ELSE JFail(j)

\* the text of the SyntaxError JSON.parse throws for an error at position at
SyntaxErrorMessage(s, at) ==
  IF at > Len(s) THEN "Unexpected end of JSON input"
  ELSE "Unexpected token " \o CharAt(s, at) \o " in JSON at position " \o ToString(at - 1)

\* JSON.parse: [ok |-> TRUE, val |-> the value] or [ok |-> FALSE, message |-> ...]
JsonParse(s) ==
  LET v   == ParseValue(s, 1)
      end == SkipWs(s, v.next)
  IN  IF v.ok /\ end > Len(s) THEN [ok |-> TRUE, val |-> v.val, message |-> ""]
      ELSE [ok |-> FALSE, val |-> <<"null">>,
            message |-> SyntaxErrorMessage(s, IF v.ok THEN end ELSE v.next)]

\* what {schema && ...} tests: the truthiness of a JSON value
Truthy(v) ==
  IF v[1] = "null" THEN FALSE
  ELSE IF v[1] = "bool" THEN v[2]
  ELSE IF v[1] = "num" THEN v[2] # 0
  ELSE IF v[1] = "str" THEN v[2] # ""
  ELSE TRUE

(***************************************************************************)
(* The response classifier of fetchSchema.                                 *)
(***************************************************************************)
\* a variant that takes status 200 alone for success
isOk_Only200(status) == status = 200

\* response.ok
isOk(status) == status >= 200 /\ status <= 299

\* the remediation hints; their bullet character, U+2022, is written "*"
NotFoundHint ==
  "\n\nPossible causes:\n* Incorrect Workspace ID or Branch ID\n* API endpoint structure has changed\n* Branch or workspace doesn't exist"

UnauthorizedHint ==
  "\n\nAuthentication failed:\n* Check your service account credentials\n* Verify the service account has access to this workspace"

ForbiddenHint ==
  "\n\nAccess forbidden:\n* Service account may not have permission to access this resource"

\* the message of the Error thrown for a response that is not ok
httpErrorMessage(status, statusText) ==
  ("HTTP " \o ToString(status) \o ": " \o statusText)
    \o (IF status = 404 THEN NotFoundHint
        ELSE IF status = 401 THEN UnauthorizedHint
        ELSE IF status = 403 THEN ForbiddenHint
        ELSE "")

\* a thrown value: [isError |-> err instanceof Error, message |-> err.message]
ErrorOf(message) == [isError |-> TRUE, message |-> message]

\* a variant that drops the text of the error caught
catchMessage_Generic(err) == "Failed to fetch schema"

\* the catch clause's argument of setError
catchMessage(err) == IF err.isError THEN err.message ELSE "Failed to fetch schema"

(***************************************************************************)
(* Inputs: what the user types and what the HTTP client delivers.          *)
(***************************************************************************)
\* values typed into the api-url input: blank ones, a URL of the API origin
\* with path and query, a URL of another origin that starts with the same
\* characters, and a URL of an unrelated origin
UrlInputs ==
  {"", " ", "https://api.avo.app/w/1?b=2", "https://api.avo.app.evil.io/w",
   "https://example.com/w"}

CredAlphabet == {" ", "a"}

RECURSIVE StringsUpTo(_)
StringsUpTo(n) ==
  IF n = 0 THEN {""}
  ELSE LET shorter == StringsUpTo(n - 1)
       IN  shorter \cup {s \o c : s \in shorter, c \in CredAlphabet}

\* values typed into the name and secret inputs: every string over the
\* alphabet up to the bound (empty, white space only, plain), a name padded
\* with white space, and one with a character outside Latin1
CredInputs == StringsUpTo(MaxCredLen) \cup {" ab ", "€"}

\* <<status, statusText>> of the responses the HTTP client resolves with
Responses ==
  {<<200, "OK">>, <<299, "">>, <<300, "Multiple Choices">>, <<401, "Unauthorized">>,
   <<403, "Forbidden">>, <<404, "Not Found">>, <<500, "Internal Server Error">>}

\* body texts response.json() reads
Bodies == {"null", "0", "{\"a\":1}", "[]", "nope", ""}

\* what fetch, response.text() and response.json() reject with when the
\* network fails: a TypeError
NetworkErrors == {ErrorOf("Failed to fetch")}

Keys == {"Enter", "a"}

InputIds == {"api-url", "username", "password"}

(***************************************************************************)
(* State.                                                                  *)
(***************************************************************************)
VARIABLES
  apiUrl,     \* useState('')
  username,   \* useState('')
  password,   \* useState('')
  schema,     \* useState(null): a JSON value
  loading,    \* useState(false)
  error,      \* useState('')
  debugInfo,  \* useState(null): <<>> or <<the record of the response>>
  calls,      \* the invocations of fetchSchema suspended at an await, each with
              \* the values its closure holds and the request it issued
  phase,      \* history: where the latest invocation of fetchSchema stands,
              \* "Idle" | "Fetching" | "Succeeded" | "Failed"
  lastBody,   \* history: <<>>, or <<the body text>> that response.json() of the
              \* latest invocation read
  requests    \* history: the number of calls of fetch (HTTP requests) the
              \* latest invocation of fetchSchema has made

vars ==
  <<apiUrl, username, password, schema, loading, error, debugInfo, calls, phase, lastBody,
    requests>>

inputs == <<apiUrl, username, password>>

Init ==
  /\ apiUrl = ""
  /\ username = ""
  /\ password = ""
  /\ schema = <<"null">>
  /\ loading = FALSE
  /\ error = ""
  /\ debugInfo = <<>>
  /\ calls = <<>>
  /\ phase = "Idle"
  /\ lastBody = <<>>
  /\ requests = 0

Remove(seq, i) == SubSeq(seq, 1, i - 1) \o SubSeq(seq, i + 1, Len(seq))

(***************************************************************************)
(* What the page renders.                                                  *)
(***************************************************************************)
\* a variant of the button that stays enabled while loading
buttonDisabled_NoLoading == Trim(apiUrl) = ""

\* disabled={loading || !apiUrl.trim()} of the Fetch button
buttonDisabled == loading \/ Trim(apiUrl) = ""

\* a variant of the inputs that are never disabled
inputDisabled_Never == FALSE

\* disabled={loading} of the three inputs
inputDisabled == loading

SchemaDisplayed == Truthy(schema)

ErrorDisplayed == error # ""

DebugDisplayed == debugInfo # <<>>

EmptyStateDisplayed == ~Truthy(schema) /\ ~loading /\ error = ""

(***************************************************************************)
(* fetchSchema up to its first await.                                      *)
(***************************************************************************)
\* a variant without the early return on a blank URL
fetchSchema_NoBlankGuard ==
  IF buildThrows(username, password) THEN
    \* btoa throws inside try: catch and finally run before the handler returns
    /\ error' = catchMessage(ErrorOf(BtoaErrorMessage))
    /\ loading' = FALSE
    /\ debugInfo' = <<>>
    /\ phase' = "Failed"
    /\ lastBody' = <<>>
    /\ requests' = 0
    /\ UNCHANGED <<inputs, schema, calls>>
  ELSE
    /\ loading' = TRUE
    /\ error' = ""
    /\ debugInfo' = <<>>
    /\ calls' = Append(calls,
         [pc |-> "fetch", apiUrl |-> apiUrl, username |-> username, password |-> password,
          request |-> [method |-> "GET", url |-> getProxiedUrl(apiUrl),
                       headers |-> buildHeaders(username, password)],
          status |-> 0, statusText |-> ""])
    /\ phase' = "Fetching"
    /\ lastBody' = <<>>
    /\ requests' = 1
    /\ UNCHANGED <<inputs, schema>>

fetchSchema ==
  IF Trim(apiUrl) = "" THEN UNCHANGED vars
  ELSE IF buildThrows(username, password) THEN
    \* btoa throws inside try: catch and finally run before the handler returns
    /\ error' = catchMessage(ErrorOf(BtoaErrorMessage))
    /\ loading' = FALSE
    /\ debugInfo' = <<>>
    /\ phase' = "Failed"
    /\ lastBody' = <<>>
    /\ requests' = 0
    /\ UNCHANGED <<inputs, schema, calls>>
  ELSE
    /\ loading' = TRUE
    /\ error' = ""
    /\ debugInfo' = <<>>
    /\ calls' = Append(calls,
         [pc |-> "fetch", apiUrl |-> apiUrl, username |-> username, password |-> password,
          request |-> [method |-> "GET", url |-> getProxiedUrl(apiUrl),
                       headers |-> buildHeaders(username, password)],
          status |-> 0, statusText |-> ""])
    /\ phase' = "Fetching"
    /\ lastBody' = <<>>
    /\ requests' = 1
    /\ UNCHANGED <<inputs, schema>>

handleKeyPress(key) == IF key = "Enter" THEN fetchSchema ELSE UNCHANGED vars

(***************************************************************************)
(* User events.  A disabled control dispatches no event.                   *)
(***************************************************************************)
ClickFetch == ~buttonDisabled /\ fetchSchema

KeyPress == \E id \in InputIds, key \in Keys : ~inputDisabled /\ handleKeyPress(key)

ChangeApiUrl ==
  \E v \in UrlInputs :
    ~inputDisabled /\ apiUrl' = v
      /\ UNCHANGED <<username, password, schema, loading, error, debugInfo, calls, phase, lastBody,
                   requests>>

ChangeUsername ==
  \E v \in CredInputs :
    ~inputDisabled /\ username' = v
      /\ UNCHANGED <<apiUrl, password, schema, loading, error, debugInfo, calls, phase, lastBody,
                   requests>>

ChangePassword ==
  \E v \in CredInputs :
    ~inputDisabled /\ password' = v
      /\ UNCHANGED <<apiUrl, username, schema, loading, error, debugInfo, calls, phase, lastBody,
                   requests>>

(***************************************************************************)
(* The continuations of fetchSchema.                                       *)
(***************************************************************************)
\* a variant that retries: the failed invocation issues its request again
Failed_Retry(i, err) ==
  /\ calls' = [calls EXCEPT ![i].pc = "fetch"]
  /\ requests' = requests + 1
  /\ UNCHANGED <<inputs, schema, loading, error, debugInfo, phase>>

\* a variant without the finally clause: loading is left as it is
Failed_NoFinally(i, err) ==
  /\ error' = catchMessage(err)
  /\ calls' = Remove(calls, i)
  /\ phase' = "Failed"
  /\ UNCHANGED <<inputs, schema, debugInfo, loading, requests>>

\* catch (err) { setError(...) } finally { setLoading(false) } of call i
Failed(i, err) ==
  /\ error' = catchMessage(err)
  /\ loading' = FALSE
  /\ calls' = Remove(calls, i)
  /\ phase' = "Failed"
  /\ UNCHANGED <<inputs, schema, debugInfo, requests>>

\* setSchema(data), then finally { setLoading(false) } of call i
Succeeded(i, data) ==
  /\ schema' = data
  /\ loading' = FALSE
  /\ calls' = Remove(calls, i)
  /\ phase' = "Succeeded"
  /\ UNCHANGED <<inputs, error, debugInfo, requests>>

\* fetch resolves: setDebugInfo, then response.text() or response.json()
FetchResolved ==
  \E i \in DOMAIN calls, r \in Responses :
    /\ calls[i].pc = "fetch"
    /\ debugInfo' = <<[status |-> r[1], statusText |-> r[2],
                       originalUrl |-> calls[i].apiUrl,
                       proxiedUrl |-> calls[i].request.url]>>
    /\ calls' = [calls EXCEPT ![i].pc = IF isOk(r[1]) THEN "json" ELSE "text",
                              ![i].status = r[1], ![i].statusText = r[2]]
    /\ UNCHANGED <<inputs, schema, loading, error, phase, lastBody, requests>>

\* fetch rejects
FetchRejected ==
  \E i \in DOMAIN calls, err \in NetworkErrors :
    calls[i].pc = "fetch" /\ Failed(i, err) /\ UNCHANGED lastBody

\* response.text() resolves: the Error of the status is thrown
TextResolved ==
  \E i \in DOMAIN calls :
    /\ calls[i].pc = "text"
    /\ Failed(i, ErrorOf(httpErrorMessage(calls[i].status, calls[i].statusText)))
    /\ UNCHANGED lastBody

\* response.text() rejects: the body could not be read
TextRejected ==
  \E i \in DOMAIN calls, err \in NetworkErrors :
    calls[i].pc = "text" /\ Failed(i, err) /\ UNCHANGED lastBody

\* response.json() has read the body: it resolves with the parsed value or
\* rejects with the SyntaxError
JsonResolved ==
  \E i \in DOMAIN calls, body \in Bodies :
    /\ calls[i].pc = "json"
    /\ lastBody' = <<body>>
    /\ LET parsed == JsonParse(body)
       IN  IF parsed.ok THEN Succeeded(i, parsed.val)
           ELSE Failed(i, ErrorOf(parsed.message))

\* response.json() rejects: the body could not be read
JsonRejected ==
  \E i \in DOMAIN calls, err \in NetworkErrors :
    calls[i].pc = "json" /\ Failed(i, err) /\ UNCHANGED lastBody

Next ==
  \/ ClickFetch
  \/ KeyPress
  \/ ChangeApiUrl
  \/ ChangeUsername
  \/ ChangePassword
  \/ FetchResolved
  \/ FetchRejected
  \/ TextResolved
  \/ TextRejected
  \/ JsonResolved
  \/ JsonRejected

Spec == Init /\ [][Next]_vars

\* the HTTP client settles every promise it returned
FairSpec ==
  /\ Spec
  /\ WF_vars(FetchResolved \/ FetchRejected)
  /\ WF_vars(TextResolved \/ TextRejected)
  /\ WF_vars(JsonResolved \/ JsonRejected)

TypeOK ==
  /\ apiUrl \in UrlInputs
  /\ username \in CredInputs
  /\ password \in CredInputs
  /\ loading \in BOOLEAN
  /\ Len(debugInfo) <= 1
  /\ phase \in {"Idle", "Fetching", "Succeeded", "Failed"}
  /\ Len(lastBody) <= 1
  /\ requests \in 0..1

(***************************************************************************)
(* Operators the properties are stated with.  They are written from the    *)
(* standards the claims name (RFC 4648, the URL standard, JSON), not from  *)
(* the code.                                                               *)
(***************************************************************************)
UpperLetters == "ABCDEFGHIJKLMNOPQRSTUVWXYZ"

LowerLetters == "abcdefghijklmnopqrstuvwxyz"

LowerChar(c) ==
  LET at == {i \in 1..Len(UpperLetters) : CharAt(UpperLetters, i) = c}
  IN  IF at = {} THEN c ELSE CharAt(LowerLetters, CHOOSE i \in at : TRUE)

RECURSIVE LowerCase(_)
LowerCase(s) ==
  IF s = "" THEN "" ELSE LowerChar(CharAt(s, 1)) \o LowerCase(SubSeq(s, 2, Len(s)))

\* the header names of a request that name the authorization header
AuthorizationKeys(headers) == {k \in DOMAIN headers : LowerCase(k) = "authorization"}

\* the character of a Latin1 code of the printable ASCII range
CharOf(code) ==
  IF code <= 95 THEN CharAt(AsciiLow, code - 31) ELSE CharAt(AsciiHigh, code - 96)

SextetOf(c) == (CHOOSE i \in 1..Len(Base64Alphabet) : CharAt(Base64Alphabet, i) = c) - 1

\* RFC 4648 decoding of a padded base64 text of printable ASCII characters
RECURSIVE Base64Decode(_)
Base64Decode(t) ==
  IF t = "" THEN ""
  ELSE
    LET a == SextetOf(CharAt(t, 1))
        b == SextetOf(CharAt(t, 2))
        rest == SubSeq(t, 5, Len(t))
    IN  IF CharAt(t, 3) = "=" THEN CharOf(a * 4 + b \div 16)
        ELSE LET c == SextetOf(CharAt(t, 3))
             IN  IF CharAt(t, 4) = "="
                 THEN CharOf(a * 4 + b \div 16) \o CharOf((b % 16) * 16 + c \div 4)
                 ELSE CharOf(a * 4 + b \div 16) \o CharOf((b % 16) * 16 + c \div 4)
                        \o CharOf((c % 4) * 64 + SextetOf(CharAt(t, 4)))
                        \o Base64Decode(rest)

\* a text over the base64 alphabet, padded with "=" to a multiple of four
IsPaddedBase64(t) ==
  /\ Len(t) % 4 = 0
  /\ \A i \in 1..Len(t) :
       \/ \E j \in 1..Len(Base64Alphabet) : CharAt(Base64Alphabet, j) = CharAt(t, i)
       \/ CharAt(t, i) = "=" /\ i >= Len(t) - 1 /\ (i = Len(t) \/ CharAt(t, Len(t)) = "=")

\* the origin of an absolute URL: scheme, "://", host and port
OriginOf(url) ==
  LET u     == Trim(url)
      sep   == IndexOf(u, "://")
      stops == {i \in (sep + 3)..Len(u) : CharAt(u, i) \in {"/", "?", "#"}}
      end   == IF stops = {} THEN Len(u) + 1 ELSE CHOOSE i \in stops : \A j \in stops : i <= j
  IN  IF sep = 0 THEN "" ELSE LowerCase(SubSeq(u, 1, end - 1))

\* path, query and fragment of an absolute URL: what follows its origin
AfterOrigin(url) ==
  LET u == Trim(url) IN SubSeq(u, Len(OriginOf(url)) + 1, Len(u))

\* the bodies that are JSON texts, with the value each denotes
JsonTexts == {"null", "0", "{\"a\":1}", "[]"}

JsonValueOf(body) ==
  IF body = "null" THEN <<"null">>
  ELSE IF body = "0" THEN <<"num", 0>>
  ELSE IF body = "[]" THEN <<"arr", <<>>>>
  ELSE <<"obj", << <<"a", <<"num", 1>> >> >> >>

NetworkErrorMessages == {e.message : e \in NetworkErrors}

IsSyntaxErrorMessage(m) ==
  m = "Unexpected end of JSON input" \/ StartsWith(m, "Unexpected token ")

\* the invocations of fetchSchema whose HTTP request awaits its response
AwaitingResponse == {i \in DOMAIN calls : calls[i].pc = "fetch"}

(***************************************************************************)
(* C1.  At most one request is in flight: while a fetch is Fetching        *)
(* (loading = TRUE) no user event starts a second invocation, so there is  *)
(* never more than one suspended invocation of fetchSchema, and no step    *)
(* taken while loading adds a request.                                     *)
(***************************************************************************)
C1_OneRequestInFlight ==
  /\ [](Len(calls) <= 1)
  /\ [][loading => Len(calls') <= Len(calls)]_vars

\* a request awaits its response while the URL field would allow a trigger
C1_Witness ==
  loading /\ Len(calls) = 1 /\ calls[1].pc = "fetch" /\ Trim(apiUrl) # ""

(***************************************************************************)
(* C2.  A fetch started from Succeeded or Failed resets every displayed    *)
(* result: while its request awaits the response neither payload, error    *)
(* nor debug information is displayed, and once it has failed the payload  *)
(* of an earlier fetch is not displayed beside its error.                  *)
(***************************************************************************)
C2_FetchResetsDisplayedResult ==
  /\ AwaitingResponse # {} => ~SchemaDisplayed /\ ~ErrorDisplayed /\ ~DebugDisplayed
  /\ phase = "Failed" => ~SchemaDisplayed

C4_NoHeaderForPartialCredentials ==
  /\ [](\A i \in DOMAIN calls :
          Trim(calls[i].username) = "" \/ Trim(calls[i].password) = "" =>
            /\ AuthorizationKeys(calls[i].request.headers) = {}
            /\ DOMAIN calls[i].request.headers = {"Content-Type"}
            /\ calls[i].request.headers["Content-Type"] = "application/json")
  /\ [][(/\ ~loading /\ loading'
         /\ (Trim(username) = "" \/ Trim(password) = ""))
          => Len(calls') = Len(calls) + 1]_vars

\* a request built from a name alone awaits its response
C4_Witness ==
  \E i \in AwaitingResponse :
    /\ Trim(calls[i].username) # "" /\ Trim(calls[i].password) = ""
    /\ DOMAIN calls[i].request.headers = {"Content-Type"}

NonOkReceived(d) == d # <<>> /\ (d[1].status < 200 \/ d[1].status > 299)

\* the response the latest fetch received is recorded and has a status in
\* 200..299
OkReceived(d) == d # <<>> /\ d[1].status >= 200 /\ d[1].status <= 299

\* the remediation hint the claims give each status
HintOf(status) ==
  IF status = 404 THEN NotFoundHint
  ELSE IF status = 401 THEN UnauthorizedHint
  ELSE IF status = 403 THEN ForbiddenHint
  ELSE ""

(***************************************************************************)
(* C6.  Every response with a status outside 200..299 ends the fetch in    *)
(* Failed with the message "HTTP <status>: <statusText>" followed by the   *)
(* hint of the status (404: workspace and branch, 401 and 403: service     *)
(* account, otherwise none), and stores no payload.                        *)
(***************************************************************************)
C6_NonOkStatusInMessage ==
  /\ [](~loading /\ NonOkReceived(debugInfo) =>
          /\ phase = "Failed"
          /\ error = ("HTTP " \o ToString(debugInfo[1].status) \o ": "
                        \o debugInfo[1].statusText) \o HintOf(debugInfo[1].status))
  /\ [][NonOkReceived(debugInfo') => schema' = schema]_vars

(***************************************************************************)
(* C7.  A response with a status in 200..299 whose body is read: when the  *)
(* body is a JSON text the fetch ends in Succeeded, the payload is the     *)
(* value the text denotes and the error is empty; when it is not, the      *)
(* fetch ends in Failed with the syntax error as message and the payload   *)
(* is left as it was.  Such a fetch ends without a body only when reading  *)
(* the body fails in the network.                                          *)
(***************************************************************************)
C7_OkStatusParsesBody ==
  /\ [](~loading /\ OkReceived(debugInfo) =>
          IF lastBody = <<>> THEN phase = "Failed" /\ error \in NetworkErrorMessages
          ELSE IF lastBody[1] \in JsonTexts
            THEN phase = "Succeeded" /\ schema = JsonValueOf(lastBody[1]) /\ error = ""
            ELSE phase = "Failed" /\ IsSyntaxErrorMessage(error))
  /\ [][lastBody' # <<>> /\ lastBody'[1] \notin JsonTexts => schema' = schema]_vars

\* a fetch has succeeded with the object of the body as payload, and another
\* has failed on a body that is no JSON text
C7_Witness ==
  /\ ~loading /\ OkReceived(debugInfo) /\ lastBody = <<"nope">>
  /\ phase = "Failed" /\ schema = JsonValueOf("{\"a\":1}")

(***************************************************************************)
(* C8.  When the HTTP client rejects before a status is received, the      *)
(* fetch ends in Failed with the text of the underlying error as message,  *)
(* the invocation ends (nothing propagates), the payload is left as it     *)
(* was and no debug information is recorded.                               *)
(***************************************************************************)
C8_NetworkFailureIsCaught ==
  [][AwaitingResponse # {} /\ Len(calls') < Len(calls) =>
       /\ phase' = "Failed"
       /\ error' \in NetworkErrorMessages
       /\ ~loading'
       /\ schema' = schema
       /\ debugInfo' = <<>>]_vars

\* a fetch has failed without a response, beside the payload of an earlier one
C8_Witness ==
  /\ phase = "Failed" /\ ~loading /\ debugInfo = <<>>
  /\ error = "Failed to fetch" /\ schema = JsonValueOf("{\"a\":1}")

(***************************************************************************)
(* C9.  A completed fetch always leaves something to render: after         *)
(* Succeeded the payload is displayed, after Failed a non-empty error is   *)
(* displayed, and the empty state is never shown after a fetch.            *)
(***************************************************************************)
C9_OutcomeIsDisplayed ==
  /\ phase = "Succeeded" => SchemaDisplayed
  /\ phase = "Failed" => ErrorDisplayed
  /\ phase \in {"Succeeded", "Failed"} => ~EmptyStateDisplayed

(***************************************************************************)
(* C10.  Every fetch goes from not Fetching to Fetching to Succeeded or    *)
(* Failed (a fetch whose headers cannot be built fails within its trigger, *)
(* before any await); when the HTTP client settles its promises a fetch    *)
(* that is Fetching eventually is not; loading is true exactly while an    *)
(* invocation is suspended, which is exactly the phase Fetching; and the   *)
(* controls are enabled again only with the outcome determined.            *)
(***************************************************************************)
C10_FetchLifecycle ==
  /\ [](loading <=> calls # <<>>)
  /\ [](loading <=> phase = "Fetching")
  /\ loading ~> ~loading
  /\ [][phase' # phase =>
          \/ phase # "Fetching" /\ phase' = "Fetching"
          \/ phase = "Fetching" /\ phase' \in {"Succeeded", "Failed"}
          \/ phase # "Fetching" /\ phase' = "Failed" /\ error' = BtoaErrorMessage]_vars
  /\ [][inputDisabled /\ ~inputDisabled' =>
          /\ phase' \in {"Succeeded", "Failed"}
          /\ calls' = <<>>
          /\ phase' = "Failed" => error' # ""
          /\ phase' = "Succeeded" => error' = "" /\ lastBody' # <<>>]_vars

\* a fetch that was Fetching has ended on each of the four paths; this is
\* the end of one that failed on the status
C10_Witness ==
  /\ ~loading /\ phase = "Failed" /\ NonOkReceived(debugInfo)
  /\ StartsWith(error, "HTTP 500")

C12_NoAutomaticRetry ==
  /\ [](phase = "Fetching" => requests = 1 /\ Len(calls) = 1)
  /\ [](\A i \in DOMAIN calls : calls[i].request.method = "GET")
  /\ [](phase = "Failed" => calls = <<>> /\ AwaitingResponse = {} /\ error # "" /\ requests <= 1)
  /\ [][requests' # requests \/ ~(AwaitingResponse' \subseteq AwaitingResponse) =>
          calls = <<>> /\ ~loading /\ phase # "Fetching"]_vars
  /\ [][phase = "Fetching" /\ phase' = "Failed" =>
          requests' = 1 /\ calls' = <<>> /\ error' # "" /\ ~loading']_vars

\* a fetch has failed on a 404 with the one request it made
C12_Witness ==
  /\ phase = "Failed" /\ requests = 1 /\ calls = <<>>
  /\ NonOkReceived(debugInfo) /\ debugInfo[1].status = 404

(***************************************************************************)
(* C13.  A trigger while the URL field is blank is a no-op: the button is  *)
(* disabled, and a step taken with a blank URL that leaves the three       *)
(* fields as they are (the Enter key in an input) changes nothing: no      *)
(* request, no Fetching, payload, error and debug information untouched.   *)
(***************************************************************************)
C13_BlankUrlTriggerIsNoOp ==
  /\ [](Trim(apiUrl) = "" =>
          buttonDisabled /\ ~loading /\ calls = <<>> /\ phase # "Fetching")
  /\ [][Trim(apiUrl) = "" /\ inputs' = inputs =>
          UNCHANGED <<schema, loading, error, debugInfo, calls, phase, lastBody, requests>>]_vars

\* the URL field holds white space only while the payload of one fetch and
\* the error and debug information of a later one are displayed
C13_Witness ==
  /\ apiUrl = " " /\ ~loading /\ ~inputDisabled
  /\ SchemaDisplayed /\ ErrorDisplayed /\ DebugDisplayed

====
